---- MODULE Spec2Model ----
(***************************************************************************)
(* A model of csv_to_beancount (src/src/main.rs): the value parsers, the   *)
(* template-driven transaction builder and the main loop that reads the   *)
(* CSV, builds one transaction per record and renders it to the output.   *)
(*                                                                         *)
(* Strings are sequences of atoms.  An atom is either one character        *)
(* ("1", ".", ",", " ", ":", "-") or an indivisible chunk of text          *)
(* ("Assets", "Bank", "USD"); the chunks are chosen so that no            *)
(* concatenation of atoms spells another atom, hence equality of atom      *)
(* sequences is equality of the strings they spell.  In a template, the    *)
(* atoms "{{d}}", "{{n}}", ... are handlebars expressions and "{{" is an    *)
(* unclosed expression (a syntax error).                                   *)
(***************************************************************************)
EXTENDS Integers, Sequences, FiniteSets, TLC

VARIABLES
    s,          \* the argument of the value parser under test
    parsed,     \* Option<Result>: what the parser returned for s
    config,     \* the Configuration read from the yaml file
    csv,        \* the rows of the csv file, in file order
    rdr,        \* the csv reader: rows consumed, first_field_count
    skip_n,     \* rows the Skip adapter still has to drop
    record,     \* Option: the record the loop body holds
    frame,      \* the locals of build_transaction, as far as they are set
    transaction,\* Option<Result>: what build_transaction returned for record
    trace,      \* the steps build_transaction evaluated, with their outcomes
    write,      \* the transactions rendered to the output sink, in order
    exit,       \* Option<Result>: how main ended
    pc          \* where main is

vars == <<s, parsed, config, csv, rdr, skip_n, record, frame, transaction,
          trace, write, exit, pc>>

(***************************************************************************)
(* Bounds of the model.                                                    *)
(***************************************************************************)
MaxAmountLen == 4
MaxAccountLen == 3
MaxPostings == 2
MaxRows == 3
MaxSkip == 2

(***************************************************************************)
(* Option and Result.                                                      *)
(***************************************************************************)
None == <<>>
Some(v) == <<v>>
IsSome(o) == Len(o) = 1
Unwrap(o) == o[1]

Ok(v) == [ok |-> TRUE, val |-> v]
Err(e) == [ok |-> FALSE, err |-> e]

(***************************************************************************)
(* str::split: the maximal pieces of str between occurrences of sep; an    *)
(* input without sep (the empty string included) is one piece.             *)
(***************************************************************************)
\* str::splitn(2, sep): the text before the first sep, and all the text after it.
splitn_2(str, sep) ==
    IF \E i \in 1..Len(str) : str[i] = sep
    THEN LET i == CHOOSE k \in 1..Len(str) :
                      /\ str[k] = sep
                      /\ \A j \in 1..(k - 1) : str[j] # sep
         IN  <<SubSeq(str, 1, i - 1), SubSeq(str, i + 1, Len(str))>>
    ELSE <<str>>

RECURSIVE split(_, _)
split(str, sep) ==
    IF \E i \in 1..Len(str) : str[i] = sep
    THEN LET i == CHOOSE k \in 1..Len(str) :
                      /\ str[k] = sep
                      /\ \A j \in 1..(k - 1) : str[j] # sep
         IN  <<SubSeq(str, 1, i - 1)>> \o split(SubSeq(str, i + 1, Len(str)), sep)
    ELSE <<str>>

\* str::replacen(',', ".", 1): only the first comma becomes a period.
replacen_1(str) ==
    [i \in 1..Len(str) |->
        IF str[i] = "," /\ \A j \in 1..(i - 1) : str[j] # "," THEN "." ELSE str[i]]

\* str::replace(',', "."): every comma becomes a period.
replace(str) == [i \in 1..Len(str) |-> IF str[i] = "," THEN "." ELSE str[i]]

(***************************************************************************)
(* str::parse::<Decimal>: an optional '-', then digits with at most one    *)
(* '.', and at least one digit.  The value keeps its scale, as Decimal     *)
(* does: "12.50" is 1250 with scale 2.                                     *)
(***************************************************************************)
DigitVal ==
    [c \in {"0", "1", "2", "3", "4", "5", "6", "7", "8", "9"} |->
        CASE c = "0" -> 0 [] c = "1" -> 1 [] c = "2" -> 2 [] c = "3" -> 3
          [] c = "4" -> 4 [] c = "5" -> 5 [] c = "6" -> 6 [] c = "7" -> 7
          [] c = "8" -> 8 [] c = "9" -> 9]

Digits == DOMAIN DigitVal

RECURSIVE Mantissa(_)
Mantissa(str) ==
    IF Len(str) = 0 THEN 0
    ELSE LET c == str[Len(str)]
             rest == Mantissa(SubSeq(str, 1, Len(str) - 1))
         IN  IF c \in Digits THEN 10 * rest + DigitVal[c] ELSE rest

parse_Decimal(str) ==
    LET neg == Len(str) > 0 /\ str[1] = "-"
        body == IF neg THEN Tail(str) ELSE str
        dots == {i \in 1..Len(body) : body[i] = "."}
        digs == {i \in 1..Len(body) : body[i] \in Digits}
    IN  IF \/ digs = {}
           \/ Cardinality(dots) > 1
           \/ \E i \in 1..Len(body) : body[i] \notin Digits \cup {"."}
        THEN Err("ParseDecimal")
        ELSE Ok([neg |-> neg,
                 mantissa |-> Mantissa(body),
                 scale |-> IF dots = {} THEN 0
                           ELSE Len(body) - (CHOOSE i \in dots : TRUE)])

(***************************************************************************)
(* incomplete_amount_from_string: the first piece of s.split(' ') is the   *)
(* number, the second piece the currency.                                  *)
(***************************************************************************)
\* The same, but a missing second piece leaves the currency unset.
amount_without_currency(str) ==
    LET pieces == split(str, " ")
        value == parse_Decimal(replace(pieces[1]))
    IN  IF ~value.ok THEN Err("InvalidAmount")
        ELSE IF Len(pieces) < 2 THEN Ok([num |-> Some(value.val), currency |-> None])
        ELSE Ok([num |-> Some(value.val), currency |-> Some(pieces[2])])

incomplete_amount_from_string(str) ==
    LET pieces == split(str, " ")
        value == parse_Decimal(replace(pieces[1]))
    IN  IF ~value.ok THEN Err("InvalidAmount")
        ELSE IF Len(pieces) < 2 THEN Err("InvalidAmount")
        ELSE Ok([num |-> Some(value.val), currency |-> Some(pieces[2])])

(***************************************************************************)
(* account_from_string: the first piece of s.split(':') must be one of the *)
(* five account types; the other pieces are the parts.                     *)
(***************************************************************************)
AccountTypes == {"Assets", "Liabilities", "Equity", "Income", "Expenses"}

\* The same, but with any single word taken as the account type.
account_any_root(str) ==
    LET pieces == split(str, ":")
    IN  IF Len(pieces[1]) = 1
        THEN Ok([ty |-> pieces[1][1], parts |-> Tail(pieces)])
        ELSE Err("InvalidAccount")

account_from_string(str) ==
    LET pieces == split(str, ":")
    IN  IF \E ty \in AccountTypes : pieces[1] = <<ty>>
        THEN Ok([ty |-> pieces[1][1], parts |-> Tail(pieces)])
        ELSE Err("InvalidAccount")

(***************************************************************************)
(* The template engine.  main builds it with Handlebars::new(), which      *)
(* leaves strict mode off, and registers no_escape as its escape function. *)
(***************************************************************************)
Expression ==
    [e \in {"{{d}}", "{{n}}", "{{a}}", "{{p}}", "{{zz}}"} |->
        CASE e = "{{d}}" -> "d" [] e = "{{n}}" -> "n" [] e = "{{a}}" -> "a"
          [] e = "{{p}}" -> "p" [] e = "{{zz}}" -> "zz"]

Unclosed == "{{"

\* The engine with set_strict_mode(true).
handlebars_strict == [strict_mode |-> TRUE, escape_fn |-> "no_escape"]

handlebars == [strict_mode |-> FALSE, escape_fn |-> "no_escape"]

\* The escape function applied to a substituted value.
RECURSIVE escape(_, _)
escape(hb, str) ==
    IF Len(str) = 0 THEN <<>>
    ELSE (IF hb.escape_fn = "html_escape" /\ Head(str) = "&"
          THEN <<"&amp;">> ELSE <<Head(str)>>) \o escape(hb, Tail(str))

\* The template's expressions that name no key of data.
MissingNames(tpl, data) ==
    {i \in 1..Len(tpl) : tpl[i] \in DOMAIN Expression
                         /\ Expression[tpl[i]] \notin DOMAIN data}

RECURSIVE expand(_, _, _)
expand(hb, tpl, data) ==
    IF Len(tpl) = 0 THEN <<>>
    ELSE LET e == Head(tpl)
             text == IF e \in DOMAIN Expression
                     THEN IF Expression[e] \in DOMAIN data
                          THEN escape(hb, data[Expression[e]])
                          ELSE <<>>
                     ELSE <<e>>
         IN  text \o expand(hb, Tail(tpl), data)

(***************************************************************************)
(* Handlebars::render_template: a template that does not compile is an     *)
(* error; so is, in strict mode only, an expression that names no key of   *)
(* the data.  Otherwise every expression is replaced by its value, and an  *)
(* expression without a value by the empty string.                         *)
(***************************************************************************)
render_template(hb, tpl, data) ==
    IF \E i \in 1..Len(tpl) : tpl[i] = Unclosed THEN Err("HandleBarError")
    ELSE IF hb.strict_mode /\ MissingNames(tpl, data) # {} THEN Err("HandleBarError")
    ELSE Ok(expand(hb, tpl, data))

(***************************************************************************)
(* NaiveDate::parse_from_str: the string must match the format item by     *)
(* item and name a day of the calendar.                                    *)
(***************************************************************************)
NumVal ==
    [c \in {"2023", "2024", "01", "02", "13", "15", "29", "30"} |->
        CASE c = "2023" -> 2023 [] c = "2024" -> 2024 [] c = "01" -> 1
          [] c = "02" -> 2 [] c = "13" -> 13 [] c = "15" -> 15
          [] c = "29" -> 29 [] c = "30" -> 30]

Specifiers == {"%Y", "%m", "%d"}

DaysIn(y, m) ==
    IF m = 2
    THEN IF (y % 4 = 0 /\ y % 100 # 0) \/ y % 400 = 0 THEN 29 ELSE 28
    ELSE IF m \in {4, 6, 9, 11} THEN 30 ELSE 31

parse_from_str(str, fmt) ==
    LET At(sp) == NumVal[str[CHOOSE i \in 1..Len(fmt) : fmt[i] = sp]]
    IN  IF \/ Len(str) # Len(fmt)
           \/ \E sp \in Specifiers : ~\E i \in 1..Len(fmt) : fmt[i] = sp
           \/ \E i \in 1..Len(fmt) :
                IF fmt[i] \in Specifiers THEN str[i] \notin DOMAIN NumVal
                ELSE str[i] # fmt[i]
        THEN Err("DateParseError")
        ELSE IF At("%m") \in 1..12 /\ At("%d") \in 1..DaysIn(At("%Y"), At("%m"))
        THEN Ok([year |-> At("%Y"), month |-> At("%m"), day |-> At("%d")])
        ELSE Err("DateParseError")

\* Flag::from: "*" and "!" are the two named flags, anything else is kept.
Flag_from(str) ==
    IF str = <<"*">> THEN [kind |-> "Okay", text |-> <<>>]
    ELSE IF str = <<"!">> THEN [kind |-> "Warning", text |-> <<>>]
    ELSE [kind |-> "Other", text |-> str]

default_transaction_flag == <<"!">>

\* An amount of zero without a currency.
IncompleteAmount_zero ==
    [num |-> Some([neg |-> FALSE, mantissa |-> 0, scale |-> 0]), currency |-> None]

\* IncompleteAmount::builder().build(): neither a number nor a currency.
IncompleteAmount_default == [num |-> None, currency |-> None]

(***************************************************************************)
(* A step of build_transaction that was evaluated: the posting it belongs  *)
(* to (0 for the transaction's own fields), the field, whether it rendered *)
(* a template or parsed the rendered text, and whether it succeeded.       *)
(***************************************************************************)
St(field, act, ok) == [posting |-> 0, field |-> field, act |-> act, ok |-> ok]

\* An optional amount template: rendered, then parsed, each only if the one
\* before succeeded; no template is Ok(None).
optional_amount(tpl, hb, data, field) ==
    IF ~IsSome(tpl) THEN [res |-> Ok(None), trace |-> <<>>]
    ELSE LET r == render_template(hb, Unwrap(tpl), data)
         IN  IF ~r.ok THEN [res |-> r, trace |-> <<St(field, "render", FALSE)>>]
             ELSE LET a == incomplete_amount_from_string(r.val)
                      tr == <<St(field, "render", TRUE), St(field, "parse", a.ok)>>
                  IN  IF ~a.ok THEN [res |-> a, trace |-> tr]
                      ELSE [res |-> Ok(Some(a.val)), trace |-> tr]

\* An optional template that is only rendered.
optional_render(tpl, hb, data, field) ==
    IF ~IsSome(tpl) THEN [res |-> Ok(None), trace |-> <<>>]
    ELSE LET r == render_template(hb, Unwrap(tpl), data)
         IN  IF ~r.ok THEN [res |-> r, trace |-> <<St(field, "render", FALSE)>>]
             ELSE [res |-> Ok(Some(r.val)), trace |-> <<St(field, "render", TRUE)>>]

(***************************************************************************)
(* build_posting: account, units, flag, price, in that order; every `?`    *)
(* returns the error at once.  The cost template is never read.            *)
(***************************************************************************)
build_posting(posting_template, hb, data) ==
    LET r == render_template(hb, posting_template.account, data)
    IN  IF ~r.ok THEN [res |-> r, trace |-> <<St("account", "render", FALSE)>>] ELSE
    LET account == account_from_string(r.val)
        tr1 == <<St("account", "render", TRUE), St("account", "parse", account.ok)>>
    IN  IF ~account.ok THEN [res |-> account, trace |-> tr1] ELSE
    LET units == optional_amount(posting_template.amount, hb, data, "amount")
        tr2 == tr1 \o units.trace
    IN  IF ~units.res.ok THEN [res |-> units.res, trace |-> tr2] ELSE
    LET flag == optional_render(posting_template.flag, hb, data, "flag")
        tr3 == tr2 \o flag.trace
    IN  IF ~flag.res.ok THEN [res |-> flag.res, trace |-> tr3] ELSE
    LET price == optional_amount(posting_template.price, hb, data, "price")
        tr4 == tr3 \o price.trace
    IN  IF ~price.res.ok THEN [res |-> price.res, trace |-> tr4] ELSE
    [res |-> Ok([account |-> account.val,
                 flag |-> IF IsSome(flag.res.val)
                          THEN Some(Flag_from(Unwrap(flag.res.val))) ELSE None,
                 units |-> IF IsSome(units.res.val)
                           THEN Unwrap(units.res.val) ELSE IncompleteAmount_default,
                 price |-> price.res.val]),
     trace |-> tr4]

\* The steps of posting i, as steps of the transaction.
OfPosting(tr, i) == [k \in 1..Len(tr) |-> [tr[k] EXCEPT !.posting = i]]


\* The Row Context: record[index] for every name of config.input.
RowContext(rec, cfg) == [k \in DOMAIN cfg.input |-> rec[cfg.input[k] + 1]]

\* No filter: an empty payee stays Some("").
keep_empty(opt) == opt

\* Option::filter(|payee| !payee.is_empty())
filter_not_empty(opt) == IF IsSome(opt) /\ Unwrap(opt) # <<>> THEN opt ELSE None

(***************************************************************************)
(* The csv reader of main: has_headers(false) and, flexible being left     *)
(* off, every record must have as many fields as the first record read.    *)
(* A row of the file is its fields and whether its bytes are valid UTF-8.  *)
(* The reader yields None at the end of the file, and for a row either the *)
(* record or a csv error; it goes on to the next row after an error.       *)
(***************************************************************************)
reader_next(rows, r) ==
    IF r.pos >= Len(rows) THEN [item |-> None, rdr |-> r]
    ELSE LET row == rows[r.pos + 1]
             n == Len(row.fields)
             unequal == IsSome(r.first_field_count) /\ Unwrap(r.first_field_count) # n
             seen == [pos |-> r.pos + 1,
                      first_field_count |-> IF IsSome(r.first_field_count)
                                            THEN r.first_field_count ELSE Some(n)]
         IN  IF unequal THEN [item |-> Some(Err("Csv")), rdr |-> seen]
             ELSE IF ~row.utf8 THEN [item |-> Some(Err("Csv")), rdr |-> seen]
             ELSE [item |-> Some(Ok(row.fields)), rdr |-> seen]

\* Iterator::nth(n): n items are taken from the reader and dropped, whatever
\* they are, and the next one is returned; None as soon as the reader ends.
RECURSIVE nth(_, _, _)
nth(rows, r, n) ==
    LET x == reader_next(rows, r)
    IN  IF n = 0 \/ ~IsSome(x.item) THEN x ELSE nth(rows, x.rdr, n - 1)

\* Skip::next: the first call drops the rows to skip.
skip_next(rows, r, n) == IF n > 0 THEN nth(rows, r, n) ELSE reader_next(rows, r)

(***************************************************************************)
(* main: `for record in rdr.records().skip(skip)`, and in the body         *)
(* build_transaction(record?, ..)? and renderer.render(..).                *)
(* build_transaction is followed statement by statement; frame holds its   *)
(* locals.                                                                 *)
(***************************************************************************)
EmptyFrame ==
    [data |-> None, date |-> None, payee |-> None, flag |-> None,
     narration |-> None, postings |-> <<>>]

\* The order with the flag rendered before the payee.
flag_before_payee(local) ==
    CASE local = "data" -> "date"
      [] local = "date" -> "flag"
      [] local = "flag" -> "payee"
      [] local = "payee" -> "narration"
      [] local = "narration" -> "postings"

\* The statement that follows the one that sets a local of build_transaction.
next_statement(local) ==
    CASE local = "data" -> "date"
      [] local = "date" -> "payee"
      [] local = "payee" -> "flag"
      [] local = "flag" -> "narration"
      [] local = "narration" -> "postings"

\* The loop asks the iterator for the next record; `record?` ends main on a
\* csv error, the end of the file ends it with Ok(()).
NextRecord ==
    /\ pc = "next"
    /\ LET x == skip_next(csv, rdr, skip_n)
       IN  /\ rdr' = x.rdr
           /\ skip_n' = 0
           /\ IF ~IsSome(x.item)
              THEN /\ pc' = "done"
                   /\ exit' = Some(Ok("unit"))
                   /\ record' = None
              ELSE IF ~Unwrap(x.item).ok
              THEN /\ pc' = "failed"
                   /\ exit' = Some(Err("Csv"))
                   /\ record' = None
              ELSE /\ pc' = "data"
                   /\ exit' = exit
                   /\ record' = Some(Unwrap(x.item).val)
    /\ frame' = EmptyFrame
    /\ transaction' = None
    /\ trace' = <<>>
    /\ UNCHANGED <<s, parsed, config, csv, write>>

\* An error reported for the row, with the loop going on to the next row.
continue_with_next_row(e) ==
    /\ transaction' = Some(Err(e))
    /\ exit' = exit
    /\ pc' = "next"

\* A `?` of build_transaction returns the error, and the `?` of main ends the
\* run with it.
Fail(e) ==
    /\ transaction' = Some(Err(e))
    /\ exit' = Some(Err(e))
    /\ pc' = "failed"

\* Indexing the record with a column it does not have panics.
BuildData ==
    /\ pc = "data"
    /\ IF \E k \in DOMAIN config.input : config.input[k] + 1 > Len(Unwrap(record))
       THEN /\ trace' = Append(trace, St("data", "index", FALSE))
            /\ pc' = "panicked"
            /\ exit' = Some(Err("panic"))
            /\ frame' = frame
       ELSE /\ trace' = Append(trace, St("data", "index", TRUE))
            /\ pc' = next_statement("data")
            /\ exit' = exit
            /\ frame' = [frame EXCEPT !.data = Some(RowContext(Unwrap(record), config))]
    /\ UNCHANGED <<s, parsed, config, csv, rdr, skip_n, record, transaction, write>>

ParseDate ==
    /\ pc = "date"
    /\ LET r == render_template(handlebars, config.output.date, Unwrap(frame.data))
       IN  IF ~r.ok
           THEN /\ trace' = Append(trace, St("date", "render", FALSE))
                /\ Fail(r.err)
                /\ frame' = frame
           ELSE LET date == parse_from_str(r.val, config.settings.date_format)
                IN  /\ trace' = trace \o <<St("date", "render", TRUE),
                                          St("date", "parse", date.ok)>>
                    /\ IF ~date.ok
                       THEN Fail(date.err) /\ frame' = frame
                       ELSE /\ frame' = [frame EXCEPT !.date = Some(date.val)]
                            /\ pc' = next_statement("date")
                            /\ UNCHANGED <<transaction, exit>>
    /\ UNCHANGED <<s, parsed, config, csv, rdr, skip_n, record, write>>

RenderPayee ==
    /\ pc = "payee"
    /\ LET payee == optional_render(config.output.payee, handlebars,
                                    Unwrap(frame.data), "payee")
       IN  /\ trace' = trace \o payee.trace
           /\ IF ~payee.res.ok
              THEN Fail(payee.res.err) /\ frame' = frame
              ELSE /\ frame' = [frame EXCEPT !.payee = filter_not_empty(payee.res.val)]
                   /\ pc' = next_statement("payee")
                   /\ UNCHANGED <<transaction, exit>>
    /\ UNCHANGED <<s, parsed, config, csv, rdr, skip_n, record, write>>

RenderFlag ==
    /\ pc = "flag"
    /\ LET flag == render_template(handlebars, config.output.flag, Unwrap(frame.data))
       IN  /\ trace' = Append(trace, St("flag", "render", flag.ok))
           /\ IF ~flag.ok
              THEN Fail(flag.err) /\ frame' = frame
              ELSE /\ frame' = [frame EXCEPT !.flag = Some(Flag_from(flag.val))]
                   /\ pc' = next_statement("flag")
                   /\ UNCHANGED <<transaction, exit>>
    /\ UNCHANGED <<s, parsed, config, csv, rdr, skip_n, record, write>>

RenderNarration ==
    /\ pc = "narration"
    /\ LET narration == render_template(handlebars, config.output.narration,
                                        Unwrap(frame.data))
       IN  /\ trace' = Append(trace, St("narration", "render", narration.ok))
           /\ IF ~narration.ok
              THEN Fail(narration.err) /\ frame' = frame
              ELSE /\ frame' = [frame EXCEPT !.narration = Some(narration.val)]
                   /\ pc' = next_statement("narration")
                   /\ UNCHANGED <<transaction, exit>>
    /\ UNCHANGED <<s, parsed, config, csv, rdr, skip_n, record, write>>

\* postings.iter().map(build_posting).collect::<Result<Vec<_>, _>>(): the
\* next template is built and pushed; the first error is returned.
BuildPosting ==
    /\ pc = "postings"
    /\ Len(frame.postings) < Len(config.output.postings)
    /\ LET i == Len(frame.postings) + 1
           p == build_posting(config.output.postings[i], handlebars, Unwrap(frame.data))
       IN  /\ trace' = trace \o OfPosting(p.trace, i)
           /\ IF ~p.res.ok
              THEN Fail(p.res.err) /\ frame' = frame
              ELSE /\ frame' = [frame EXCEPT !.postings = Append(@, p.res.val)]
                   /\ UNCHANGED <<transaction, exit, pc>>
    /\ UNCHANGED <<s, parsed, config, csv, rdr, skip_n, record, write>>

\* Ok(Transaction::builder()...build())
Return ==
    /\ pc = "postings"
    /\ Len(frame.postings) = Len(config.output.postings)
    /\ transaction' = Some(Ok([date |-> Unwrap(frame.date),
                               flag |-> Unwrap(frame.flag),
                               payee |-> frame.payee,
                               narration |-> Unwrap(frame.narration),
                               postings |-> frame.postings]))
    /\ pc' = "render"
    /\ UNCHANGED <<s, parsed, config, csv, rdr, skip_n, record, frame, trace, write, exit>>

\* renderer.render(&transaction, &mut write): the sink takes the transaction
\* and the loop body ends; its locals are dropped when the next record is
\* asked for.
Render ==
    /\ pc = "render"
    /\ write' = Append(write, Unwrap(transaction).val)
    /\ pc' = "next"
    /\ UNCHANGED <<s, parsed, config, csv, rdr, skip_n, record, frame, transaction,
                   trace, exit>>

build_transaction ==
    \/ BuildData
    \/ ParseDate
    \/ RenderPayee
    \/ RenderFlag
    \/ RenderNarration
    \/ BuildPosting
    \/ Return

Next == NextRecord \/ build_transaction \/ Render

(***************************************************************************)
(* The inputs.                                                             *)
(***************************************************************************)
Date(y, m, d) == <<y, "-", m, "-", d>>

StdInput == ("d" :> 0) @@ ("n" :> 1) @@ ("a" :> 2) @@ ("p" :> 3)

StdSettings(skip) ==
    [skip |-> skip, date_format |-> <<"%Y", "-", "%m", "-", "%d">>]

YamlPosting(flag, account, amount, cost, price) ==
    [flag |-> flag, account |-> account, amount |-> amount, cost |-> cost,
     price |-> price]

AssetsBank == <<"Assets", ":", "Bank">>
ExpensesMisc == <<"Expenses", ":", "Misc">>
AmtUSD == Some(<<"{{a}}", " ", "USD">>)
AmtEUR == Some(<<"{{a}}", " ", "EUR">>)
Bad == <<"{{">>

PostingTemplates ==
    { YamlPosting(None, AssetsBank, AmtUSD, None, None),
      YamlPosting(None, ExpensesMisc, None, None, None),
      YamlPosting(Some(<<"*">>), AssetsBank, AmtUSD, Some(<<"{{a}}">>), AmtEUR),
      YamlPosting(None, <<"Foo", ":", "Bar">>, Some(Bad), None, None),
      YamlPosting(Some(<<"*">>), Bad, AmtUSD, None, None),
      YamlPosting(Some(Bad), ExpensesMisc, Some(<<"{{zz}}", " ", "USD">>), None, Some(Bad)),
      YamlPosting(Some(Bad), AssetsBank, AmtUSD, None, Some(<<"{{a}}">>)),
      YamlPosting(None, <<"Assets", ":", "{{zz}}">>, None, Some(Bad), None),
      YamlPosting(Some(<<"*">>), ExpensesMisc, None, None, Some(<<"{{a}}">>)) }

SeqsUpTo(S, n) == UNION {[1..k -> S] : k \in 0..n}

\* One row and every configuration of the builder.
BuildConfigs ==
    { [input |-> StdInput,
       settings |-> StdSettings(0),
       output |-> [date |-> d, flag |-> f, payee |-> p, narration |-> n,
                   postings |-> ps]] :
      d \in {<<"{{d}}">>, <<"{{zz}}">>, Bad},
      f \in {default_transaction_flag, Bad},
      p \in {None, Some(<<"{{p}}">>), Some(<<"{{zz}}">>), Some(Bad)},
      n \in {<<"{{n}}">>, Bad},
      ps \in SeqsUpTo(PostingTemplates, MaxPostings) }

Row(fields) == [fields |-> fields, utf8 |-> TRUE]

Coffee == <<Date("2023", "01", "15"), <<"Coffee">>, <<"4", ".", "5", "0">>, <<"Shop">>>>
Tea == <<Date("2024", "02", "29"), <<"Tea">>, <<"1", ",", "5">>, <<>>>>
Broken == <<Date("2023", "01", "15"), <<"Tea">>, <<"abc">>, <<>>>>
Feb30 == <<Date("2023", "02", "30"), <<"Coffee">>, <<"4", ".", "5", "0">>, <<"Shop">>>>
Header == <<<<"Date">>, <<"Text">>, <<"Amount">>, <<"Payee">>>>
Preamble == <<<<"Export">>, <<"2023">>>>

BuildRows == {Row(Coffee), Row(Tea), Row(Broken), Row(Preamble)}

\* A few configurations and every file of up to MaxRows rows.
RunConfigs ==
    { [input |-> StdInput,
       settings |-> StdSettings(k),
       output |-> [date |-> <<"{{d}}">>, flag |-> default_transaction_flag,
                   payee |-> p, narration |-> <<"{{n}}">>,
                   postings |-> <<YamlPosting(None, AssetsBank, AmtUSD, None, None),
                                  YamlPosting(None, ExpensesMisc, None, None, None)>>]] :
      k \in 0..MaxSkip, p \in {None, Some(<<"{{p}}">>)} }

RunRows ==
    {Row(Coffee), Row(Tea), Row(Feb30), Row(Header), Row(Preamble),
     [fields |-> Coffee, utf8 |-> FALSE]}

\* main before the loop: the configuration is read, the reader is at the
\* start of the file, nothing is written.
Start(cfg, rows) ==
    /\ config = cfg
    /\ csv = rows
    /\ rdr = [pos |-> 0, first_field_count |-> None]
    /\ skip_n = cfg.settings.skip
    /\ record = None
    /\ frame = EmptyFrame
    /\ transaction = None
    /\ trace = <<>>
    /\ write = <<>>
    /\ exit = None
    /\ pc = "next"
    /\ s = <<>>
    /\ parsed = None

Init == \E cfg \in RunConfigs, rows \in SeqsUpTo(RunRows, MaxRows) : Start(cfg, rows)

Spec == Init /\ [][Next]_vars

InitBuild == \E cfg \in BuildConfigs, row \in BuildRows : Start(cfg, <<row>>)

SpecBuild == InitBuild /\ [][Next]_vars

(***************************************************************************)
(* The value parsers on their own: every string of bounded length over the *)
(* characters that matter to them, and the examples of the documentation.  *)
(***************************************************************************)
AmountChars == {"1", "5", ",", ".", " ", "-", "U"}

AmountExamples ==
    { <<"1", "2", ",", "5", "0", " ", "EUR">>,
      <<"1", "2", ".", "5", "0", " ", "EUR">>,
      <<"abc">>,
      <<"1", "2", ".", "5", "0">>,
      <<"1", ",", "2", ",", "5", " ", "EUR">>,
      <<"4", ".", "5", "0", " ", "U", " ", "EUR">> }

AmountInputs == SeqsUpTo(AmountChars, MaxAmountLen) \cup AmountExamples

AccountAtoms ==
    {"Assets", "Liabilities", "Equity", "Income", "Expenses", "assets", "Foo",
     "Bar", ":", "Bank", "Checking"}

AccountExamples ==
    { <<"Assets", ":", "Bank", ":", "Checking">>, <<"Foo", ":", "Bar">>, <<>> }

AccountInputs == SeqsUpTo(AccountAtoms, MaxAccountLen) \cup AccountExamples

Parser(which, str) ==
    /\ s = str
    /\ parsed = None
    /\ pc = which
    /\ config = <<>>
    /\ csv = <<>>
    /\ rdr = [pos |-> 0, first_field_count |-> None]
    /\ skip_n = 0
    /\ record = None
    /\ frame = EmptyFrame
    /\ transaction = None
    /\ trace = <<>>
    /\ write = <<>>
    /\ exit = None

ParseAmount ==
    /\ pc = "amount"
    /\ parsed' = Some(incomplete_amount_from_string(s))
    /\ pc' = "returned"
    /\ UNCHANGED <<s, config, csv, rdr, skip_n, record, frame, transaction, trace,
                   write, exit>>

ParseAccount ==
    /\ pc = "account"
    /\ parsed' = Some(account_from_string(s))
    /\ pc' = "returned"
    /\ UNCHANGED <<s, config, csv, rdr, skip_n, record, frame, transaction, trace,
                   write, exit>>

InitAmount == \E str \in AmountInputs : Parser("amount", str)

SpecAmount == InitAmount /\ [][ParseAmount]_vars

InitAccount == \E str \in AccountInputs : Parser("account", str)

SpecAccount == InitAccount /\ [][ParseAccount]_vars

(***************************************************************************)
(* Properties of the value parsers.                                        *)
(***************************************************************************)
Returned == pc = "returned"

\* The position of the first sep of str at or after position from, or
\* Len(str) + 1 when there is none.
Find(str, sep, from) ==
    IF \E i \in from..Len(str) : str[i] = sep
    THEN CHOOSE i \in from..Len(str) :
            str[i] = sep /\ \A j \in from..(i - 1) : str[j] # sep
    ELSE Len(str) + 1

NumericToken(str) == SubSeq(str, 1, Find(str, " ", 1) - 1)

HasSpace(str) == \E i \in 1..Len(str) : str[i] = " "

\* C2 as stated: for every input with a space that parses, the currency is
\* all the text after the first space.
C2_CurrencyIsRestOfInput ==
    (Returned /\ HasSpace(s) /\ Unwrap(parsed).ok) =>
        Unwrap(Unwrap(parsed).val.currency) = SubSeq(s, Find(s, " ", 1) + 1, Len(s))

\* C2, amended: the number is parsed from the text before the first space and
\* the currency is the text between the first space and the second one (the
\* end of the input when there is no second space), taken as it is.
C2_CurrencyIsSecondToken ==
    (Returned /\ Unwrap(parsed).ok) =>
        LET i == Find(s, " ", 1)
            j == Find(s, " ", i + 1)
        IN  /\ HasSpace(s)
            /\ Unwrap(parsed).val.currency = Some(SubSeq(s, i + 1, j - 1))
            /\ Unwrap(parsed).val.num = Some(parse_Decimal(replace(SubSeq(s, 1, i - 1))).val)

C2_Witness ==
    /\ Returned
    /\ Unwrap(parsed).ok
    /\ Find(s, " ", Find(s, " ", 1) + 1) < Len(s)
    /\ Unwrap(Unwrap(parsed).val.currency) # <<>>

\* C3: an input without a space, or whose numeric token is no decimal after
\* the commas are replaced, gives InvalidAmount; any other input gives an
\* amount with a number and a currency.
C3_InvalidAmountOrComplete ==
    Returned =>
        IF ~HasSpace(s) \/ ~parse_Decimal(replace(NumericToken(s))).ok
        THEN Unwrap(parsed) = Err("InvalidAmount")
        ELSE /\ Unwrap(parsed).ok
             /\ IsSome(Unwrap(parsed).val.num)
             /\ IsSome(Unwrap(parsed).val.currency)

C3_Witness ==
    /\ Returned
    /\ s = <<"1", "2", ".", "5", "0">>
    /\ Unwrap(parsed) = Err("InvalidAmount")

\* The input with the separator at position i of the numeric token changed
\* from ',' to '.' or back.
SwapSeparator(str, i) ==
    [str EXCEPT ![i] = IF str[i] = "," THEN "." ELSE ","]

\* C4: inputs that differ only in ',' against '.' within the numeric token
\* have the same outcome; no comma is left in the number that is parsed;
\* "12,50 EUR" and "12.50 EUR" are both 12.50 EUR.
C4_CommaPeriodEquivalence ==
    Returned =>
        /\ \A i \in 1..Len(NumericToken(s)) :
              s[i] \in {",", "."} =>
                  incomplete_amount_from_string(SwapSeparator(s, i)) = Unwrap(parsed)
        /\ \A i \in 1..Len(NumericToken(s)) : replace(NumericToken(s))[i] # ","
        /\ s \in {<<"1", "2", ",", "5", "0", " ", "EUR">>,
                  <<"1", "2", ".", "5", "0", " ", "EUR">>} =>
              Unwrap(parsed) = Ok([num |-> Some([neg |-> FALSE, mantissa |-> 1250,
                                                 scale |-> 2]),
                                   currency |-> Some(<<"EUR">>)])

C4_Witness ==
    /\ Returned
    /\ s = <<"1", "2", ",", "5", "0", " ", "EUR">>
    /\ Unwrap(parsed).ok

\* The pieces of an account joined with ':' again.
RECURSIVE Join(_)
Join(pieces) ==
    IF Len(pieces) = 0 THEN <<>>
    ELSE IF Len(pieces) = 1 THEN pieces[1]
    ELSE pieces[1] \o <<":">> \o Join(Tail(pieces))

\* C5: the parser succeeds exactly when the text before the first ':' is one
\* of the five account types, in that spelling; the type is that word and the
\* parts are the other segments in order; anything else is InvalidAccount.
C5_AccountParser ==
    Returned =>
        LET i == Find(s, ":", 1)
            root == SubSeq(s, 1, i - 1)
            colons == Cardinality({k \in 1..Len(s) : s[k] = ":"})
            good == root \in {<<"Assets">>, <<"Liabilities">>, <<"Equity">>,
                              <<"Income">>, <<"Expenses">>}
        IN  /\ good <=> Unwrap(parsed).ok
            /\ ~good => Unwrap(parsed) = Err("InvalidAccount")
            /\ good =>
                  /\ <<Unwrap(parsed).val.ty>> = root
                  /\ Len(Unwrap(parsed).val.parts) = colons
                  /\ \A k \in 1..colons : ":" \notin
                        {Unwrap(parsed).val.parts[k][n] :
                            n \in 1..Len(Unwrap(parsed).val.parts[k])}
                  /\ colons > 0 => Join(Unwrap(parsed).val.parts) = SubSeq(s, i + 1, Len(s))
            /\ s = <<"Assets", ":", "Bank", ":", "Checking">> =>
                  Unwrap(parsed) = Ok([ty |-> "Assets",
                                       parts |-> <<<<"Bank">>, <<"Checking">>>>])
            /\ s \in {<<"Foo", ":", "Bar">>, <<>>, <<"assets", ":", "Bank">>} =>
                  Unwrap(parsed) = Err("InvalidAccount")

C5_Witness ==
    /\ Returned
    /\ s = <<"Assets", ":", "Bank", ":", "Checking">>
    /\ Unwrap(parsed).ok

(***************************************************************************)
(* Properties of build_transaction and build_posting.                      *)
(***************************************************************************)
Key(posting, field, act) == [posting |-> posting, field |-> field, act |-> act]

KeyOf(e) == Key(e.posting, e.field, e.act)

\* The template a render step renders.
TemplateOf(cfg, k) ==
    IF k.posting = 0
    THEN CASE k.field = "date" -> cfg.output.date
           [] k.field = "payee" -> Unwrap(cfg.output.payee)
           [] k.field = "flag" -> cfg.output.flag
           [] k.field = "narration" -> cfg.output.narration
    ELSE CASE k.field = "account" -> cfg.output.postings[k.posting].account
           [] k.field = "amount" -> Unwrap(cfg.output.postings[k.posting].amount)
           [] k.field = "flag" -> Unwrap(cfg.output.postings[k.posting].flag)
           [] k.field = "price" -> Unwrap(cfg.output.postings[k.posting].price)

Malformed(tpl) == \E i \in 1..Len(tpl) : tpl[i] = "{{"

Renders == {k \in 1..Len(trace) : trace[k].act = "render"}


Data == Unwrap(frame.data)

\* C1 as stated: every template that was rendered and is malformed or refers
\* to a name that is no key of the row context failed to render.
C1_UnknownNameFails ==
    \A k \in Renders :
        LET tpl == TemplateOf(config, KeyOf(trace[k]))
        IN  (Malformed(tpl) \/ MissingNames(tpl, Data) # {}) => ~trace[k].ok

\* C1, amended: a template of text and {{name}} references fails to render
\* exactly when it is malformed, and build_transaction then returns the
\* template error at once; a reference to a name that is no key of the row
\* context does not fail and renders as the empty string (an account
\* "Assets:{{zz}}" has one empty part).
C1_MalformedFails ==
    /\ \A k \in Renders :
          LET tpl == TemplateOf(config, KeyOf(trace[k]))
          IN  /\ trace[k].ok <=> ~Malformed(tpl)
              /\ ~trace[k].ok =>
                    /\ k = Len(trace)
                    /\ pc = "failed"
                    /\ transaction = Some(Err("HandleBarError"))
                    /\ exit = Some(Err("HandleBarError"))
    /\ \A i \in 1..Len(frame.postings) :
          config.output.postings[i].account = <<"Assets", ":", "{{zz}}">> =>
              frame.postings[i].account = [ty |-> "Assets", parts |-> <<<<>>>>]

C1_Witness ==
    /\ pc = "failed"
    /\ transaction = Some(Err("HandleBarError"))
    /\ \E k \in Renders :
          /\ trace[k].ok
          /\ MissingNames(TemplateOf(config, KeyOf(trace[k])), Data) # {}
    /\ \E i \in 1..Len(frame.postings) :
          config.output.postings[i].account = <<"Assets", ":", "{{zz}}">>

Built == pc = "render"

\* C8: a built transaction has one posting per posting template, in template
\* order; posting i has the units of template i's amount, or neither a number
\* nor a currency when the template has no amount; it has a price and a flag
\* exactly when the template has; the cost template changes nothing.
C8_PostingsFollowTemplates ==
    Built =>
        LET t == Unwrap(transaction).val
            templates == config.output.postings
        IN  /\ Len(t.postings) = Len(templates)
            /\ \A i \in 1..Len(templates) :
                  LET pt == templates[i]
                      p == t.postings[i]
                  IN  /\ p = build_posting(pt, handlebars, Data).res.val
                      /\ p.account =
                            account_from_string(
                                render_template(handlebars, pt.account, Data).val).val
                      /\ IF IsSome(pt.amount)
                         THEN /\ IsSome(p.units.num) /\ IsSome(p.units.currency)
                              /\ p.units =
                                    incomplete_amount_from_string(
                                        render_template(handlebars, Unwrap(pt.amount),
                                                        Data).val).val
                         ELSE p.units = [num |-> None, currency |-> None]
                      /\ IsSome(p.price) <=> IsSome(pt.price)
                      /\ IsSome(p.flag) <=> IsSome(pt.flag)
                      /\ \A cost \in {None, Some(<<"{{a}}">>), Some(<<"{{">>)} :
                            build_posting([pt EXCEPT !.cost = cost], handlebars, Data).res
                                = Ok(p)

C8_Witness ==
    /\ Built
    /\ Len(Unwrap(transaction).val.postings) = 2
    /\ \E i, j \in 1..2 :
          /\ ~IsSome(config.output.postings[i].amount)
          /\ Unwrap(transaction).val.postings[i].units = [num |-> None, currency |-> None]
          /\ IsSome(config.output.postings[j].cost)
          /\ IsSome(Unwrap(transaction).val.postings[j].price)
          /\ IsSome(Unwrap(transaction).val.postings[j].flag)

\* C9: the payee of a built transaction is absent when there is no payee
\* template or the template renders to the empty string, and is the rendered
\* string otherwise; it is never the empty string.
C9_EmptyPayeeIsAbsent ==
    Built =>
        LET t == Unwrap(transaction).val
        IN  /\ t.payee # Some(<<>>)
            /\ IF ~IsSome(config.output.payee) THEN t.payee = None
               ELSE LET r == render_template(handlebars, Unwrap(config.output.payee), Data)
                    IN  IF r.val = <<>> THEN t.payee = None ELSE t.payee = Some(r.val)

C9_Witness ==
    /\ Built
    /\ config.output.payee = Some(<<"{{p}}">>)
    /\ Data["p"] = <<>>
    /\ Unwrap(transaction).val.payee = None

(***************************************************************************)
(* The steps a configuration asks for, with the transaction's own fields   *)
(* in a given order, and what each step does when evaluated by itself.     *)
(***************************************************************************)
TopSteps(cfg, field) ==
    CASE field = "date" -> <<Key(0, "date", "render"), Key(0, "date", "parse")>>
      [] field = "payee" -> IF IsSome(cfg.output.payee)
                            THEN <<Key(0, "payee", "render")>> ELSE <<>>
      [] field = "flag" -> <<Key(0, "flag", "render")>>
      [] field = "narration" -> <<Key(0, "narration", "render")>>

PostingSteps(pt, i) ==
    <<Key(i, "account", "render"), Key(i, "account", "parse")>>
    \o (IF IsSome(pt.amount)
        THEN <<Key(i, "amount", "render"), Key(i, "amount", "parse")>> ELSE <<>>)
    \o (IF IsSome(pt.flag) THEN <<Key(i, "flag", "render")>> ELSE <<>>)
    \o (IF IsSome(pt.price)
        THEN <<Key(i, "price", "render"), Key(i, "price", "parse")>> ELSE <<>>)

RECURSIVE AllPostingSteps(_, _)
AllPostingSteps(templates, i) ==
    IF i > Len(templates) THEN <<>>
    ELSE PostingSteps(templates[i], i) \o AllPostingSteps(templates, i + 1)

ExpectedSteps(cfg, order) ==
    <<Key(0, "data", "index")>>
    \o TopSteps(cfg, order[1]) \o TopSteps(cfg, order[2])
    \o TopSteps(cfg, order[3]) \o TopSteps(cfg, order[4])
    \o AllPostingSteps(cfg.output.postings, 1)

CodeOrder == <<"date", "payee", "flag", "narration">>
SpecOrder == <<"date", "flag", "payee", "narration">>

\* Whether step k succeeds when evaluated by itself on the row context.
StepOk(cfg, data, k) ==
    IF k.act = "index" THEN TRUE
    ELSE LET r == render_template(handlebars, TemplateOf(cfg, k), data)
         IN  IF k.act = "render" THEN r.ok
             ELSE /\ r.ok
                  /\ CASE k.field = "date" ->
                            parse_from_str(r.val, cfg.settings.date_format).ok
                       [] k.field = "account" -> account_from_string(r.val).ok
                       [] OTHER -> incomplete_amount_from_string(r.val).ok

ErrorOf(k) ==
    CASE k.act = "render" -> "HandleBarError"
      [] k.field = "date" -> "DateParseError"
      [] k.field = "account" -> "InvalidAccount"
      [] OTHER -> "InvalidAmount"

Position(steps, k) == CHOOSE n \in 1..Len(steps) : steps[n] = k

TransactionFailed == pc = "failed" /\ IsSome(transaction)

\* C10 as stated: when build_transaction fails, the failing step is the
\* earliest step that fails in the order date, flag, payee, narration,
\* postings.
C10_FirstErrorInSpecOrder ==
    TransactionFailed =>
        LET steps == ExpectedSteps(config, SpecOrder)
            failing == Position(steps, KeyOf(trace[Len(trace)]))
        IN  \A n \in 1..(failing - 1) : StepOk(config, Data, steps[n])

\* C10, amended: the steps are evaluated in the order date render, date
\* parse, payee, flag, narration, then the postings in template order and in
\* each account, amount, flag, price; the first step that fails is the last
\* one evaluated and its error is returned; a transaction is returned only
\* when every step succeeded, with all its postings.
C10_FirstErrorInCodeOrder ==
    LET steps == ExpectedSteps(config, CodeOrder)
    IN  /\ Len(trace) <= Len(steps)
        /\ \A n \in 1..Len(trace) :
              /\ KeyOf(trace[n]) = steps[n]
              /\ n > 1 => trace[n].ok = StepOk(config, Data, steps[n])
              /\ n < Len(trace) => trace[n].ok
        /\ (\E n \in 1..Len(trace) : ~trace[n].ok) =>
              /\ pc \in {"failed", "panicked"}
              /\ pc = "failed" => transaction = Some(Err(ErrorOf(steps[Len(trace)])))
              /\ pc = "panicked" => transaction = None
        /\ TransactionFailed => ~trace[Len(trace)].ok
        /\ IsSome(transaction) /\ Unwrap(transaction).ok =>
              /\ Len(trace) = Len(steps)
              /\ \A n \in 1..Len(trace) : trace[n].ok
              /\ Len(Unwrap(transaction).val.postings) = Len(config.output.postings)

C10_Witness ==
    /\ TransactionFailed
    /\ trace[Len(trace)].posting = 2
    /\ trace[Len(trace)].field = "flag"
    /\ \E k \in {Key(2, "price", "render"), Key(2, "price", "parse")} :
          /\ k \in {ExpectedSteps(config, CodeOrder)[n] :
                        n \in 1..Len(ExpectedSteps(config, CodeOrder))}
          /\ ~StepOk(config, Data, k)
    /\ IsSome(config.output.payee)

(***************************************************************************)
(* Properties of the run.                                                  *)
(***************************************************************************)
Skip == config.settings.skip

InBody == pc \in {"data", "date", "payee", "flag", "narration", "postings", "render"}

\* C6: the rows after the skipped ones are processed in file order, and the
\* transaction of a row is written before the next row is read: while row k
\* is read, built or rendered, and when the run has failed at row k (a csv
\* error, a row without a configured column, or an error of
\* build_transaction), the output holds exactly the transactions of the rows
\* between the skipped ones and k, in row order.
C6_OutputIsRowsBeforeCurrent ==
    /\ \A i \in 1..Len(write) :
          /\ Skip + i <= rdr.pos
          /\ write[i].narration = csv[Skip + i].fields[2]
          /\ write[i].payee = filter_not_empty(
                 IF IsSome(config.output.payee) THEN Some(csv[Skip + i].fields[4])
                 ELSE None)
    /\ pc = "next" => (rdr.pos = 0 /\ write = <<>>) \/ Len(write) = rdr.pos - Skip
    /\ InBody =>
          /\ rdr.pos > Skip
          /\ record = Some(csv[rdr.pos].fields)
          /\ Len(write) = rdr.pos - Skip - 1
    /\ pc \in {"failed", "panicked"} => Len(write) = rdr.pos - Skip - 1
    /\ pc = "done" =>
          /\ rdr.pos = Len(csv)
          /\ Len(write) = IF Len(csv) > Skip THEN Len(csv) - Skip ELSE 0

C6_Witness ==
    /\ pc = "failed"
    /\ exit = Some(Err("DateParseError"))
    /\ Len(write) = 1
    /\ rdr.pos < Len(csv)

\* C7 as stated: build_transaction is never called on one of the first skip
\* rows and nothing is written for them; a csv error at a row is due to that
\* row and the rows processed before it (it is unreadable, or has another
\* number of fields than the first row after the skipped ones), never to a
\* skipped row; a file of at most skip rows ends the run with success and no
\* output.
C7_SkippedRowsHaveNoEffect ==
    /\ InBody => rdr.pos > Skip
    /\ Len(write) <= (IF rdr.pos > Skip THEN rdr.pos - Skip ELSE 0)
    /\ exit = Some(Err("Csv")) =>
          /\ rdr.pos > Skip
          /\ \/ ~csv[rdr.pos].utf8
             \/ Len(csv[rdr.pos].fields) # Len(csv[Skip + 1].fields)
    /\ (pc \in {"done", "failed", "panicked"} /\ Len(csv) <= Skip) =>
          pc = "done" /\ write = <<>>

====
